---- MODULE Spec2Model ----
(***************************************************************************)
(* A model of discord-mpris-rs (src/src/main.rs): the poll loop of main,   *)
(* process_metadata, the cover-art cache and the configuration cache.      *)
(* Strings are sequences of one-character strings, so that concatenation,  *)
(* case folding, splitting and template substitution are computed.         *)
(***************************************************************************)
EXTENDS Integers, Sequences, FiniteSets, TLC

(* ------------------------------ bounds --------------------------------- *)

\* Longest list of sessions the media-session query returns on one tick.
MaxPlayers == 2

\* Longest list of entities a release search returns.
MaxResults == 1

(* --------------------------- string literals --------------------------- *)

EMPTY == << >>
XESAM == <<"x","e","s","a","m",":">>
S_true == <<"t","r","u","e">>
S_false == <<"f","a","l","s","e">>
SENTINEL_MBID == <<"1","7","3","5","e","0","8","6","-","4","6","2","e","-","4","2","c","3","-","b","6","1","5","-","e","e","b","b","d","5","e","9","f","3","5","2">>
URL_PREFIX == <<"h","t","t","p","s",":","/","/","c","o","v","e","r","a","r","t","a","r","c","h","i","v","e",".","o","r","g","/","r","e","l","e","a","s","e","/">>
URL_SUFFIX == <<"/","f","r","o","n","t">>
PAUSED_SUFFIX == <<"_","p","a","u","s","e","d">>
STOPPED_TEXT == <<"S","t","o","p","p","e","d"," ","p","l","a","y","b","a","c","k">>
UNSUPPORTED == <<"<","u","n","s","u","p","p","o","r","t","e","d",">">>
K_album == <<"x","e","s","a","m",":","a","l","b","u","m">>
K_albumArtist == <<"x","e","s","a","m",":","a","l","b","u","m","A","r","t","i","s","t">>
K_title == <<"x","e","s","a","m",":","t","i","t","l","e">>
K_artist == <<"x","e","s","a","m",":","a","r","t","i","s","t">>

(* --------------------------- string functions -------------------------- *)

\* char::to_lowercase on the letters the model's identities use.
LowerChar(c) ==
    CASE c = "A" -> "a" [] c = "B" -> "b" [] c = "C" -> "c" [] c = "L" -> "l"
      [] c = "M" -> "m" [] c = "P" -> "p" [] c = "V" -> "v" [] OTHER -> c

\* a to_lowercase that leaves the string as it is
ToLowercase_Identity(s) == s

\* str::to_lowercase
ToLowercase(s) == [i \in 1..Len(s) |-> LowerChar(s[i])]

\* [String]::join(sep)
RECURSIVE Join(_, _)
Join(parts, sep) ==
    IF Len(parts) = 0 THEN EMPTY
    ELSE IF Len(parts) = 1 THEN parts[1]
    ELSE parts[1] \o sep \o Join(Tail(parts), sep)

\* whether pat occurs in s at position i
MatchesAt(s, pat, i) ==
    /\ i + Len(pat) - 1 <= Len(s)
    /\ \A k \in 1..Len(pat) : s[i + k - 1] = pat[k]

\* str::replace(pat, rep): every non-overlapping occurrence, left to right
RECURSIVE ReplaceFrom(_, _, _, _)
ReplaceFrom(s, pat, rep, i) ==
    IF i > Len(s) THEN EMPTY
    ELSE IF Len(pat) > 0 /\ MatchesAt(s, pat, i)
         THEN rep \o ReplaceFrom(s, pat, rep, i + Len(pat))
         ELSE <<s[i]>> \o ReplaceFrom(s, pat, rep, i + 1)

Replace(s, pat, rep) == ReplaceFrom(s, pat, rep, 1)

\* str::split(','): the pieces between commas; an empty string is one empty piece
RECURSIVE SplitFrom(_, _, _)
SplitFrom(s, i, acc) ==
    IF i > Len(s) THEN <<acc>>
    ELSE IF s[i] = "," THEN <<acc>> \o SplitFrom(s, i + 1, EMPTY)
    ELSE SplitFrom(s, i + 1, Append(acc, s[i]))

Split(s) == SplitFrom(s, 1, EMPTY)

\* str::trim
RECURSIVE Trim(_)
Trim(s) ==
    IF Len(s) = 0 THEN s
    ELSE IF s[1] = " " THEN Trim(Tail(s))
    ELSE IF s[Len(s)] = " " THEN Trim(SubSeq(s, 1, Len(s) - 1))
    ELSE s

\* position of the first "}" after position i, or 0
FirstClose(s, i) ==
    LET closes == {j \in (i + 1)..Len(s) : s[j] = "}"}
    IN IF closes = {} THEN 0 ELSE CHOOSE j \in closes : \A k \in closes : j <= k

\* FILTER.replace_all(raw_row, "$1") with FILTER = ^.*?\{([^}]+)\}.*?$ :
\* the text between the leftmost "{" that is followed by one or more
\* non-"}" characters and a "}"; the row itself when there is no such place.
FilterField(raw) ==
    LET opens == {i \in 1..Len(raw) : raw[i] = "{" /\ FirstClose(raw, i) > i + 1}
    IN IF opens = {} THEN raw
       ELSE LET i == CHOOSE o \in opens : \A k \in opens : o <= k
            IN SubSeq(raw, i + 1, FirstClose(raw, i) - 1)

(* ------------------------------ Config --------------------------------- *)

\* enum ConfigValue, one record shape for the four variants
CfgVec(v) == [tag |-> "Vec", vec |-> v, str |-> EMPTY, b |-> FALSE, ms |-> 0]
CfgString(s) == [tag |-> "String", vec |-> EMPTY, str |-> s, b |-> FALSE, ms |-> 0]
CfgBool(x) == [tag |-> "Bool", vec |-> EMPTY, str |-> EMPTY, b |-> x, ms |-> 0]
CfgDuration(n) == [tag |-> "Duration", vec |-> EMPTY, str |-> EMPTY, b |-> FALSE, ms |-> n]

\* enum AppError: the variant, the configuration key and the field it carries
AppError(kind, key, field) == [kind |-> kind, key |-> key, field |-> field]
NoError == AppError("None", "", EMPTY)

Digits == {"0", "1", "2", "3", "4", "5", "6", "7", "8", "9"}

DigitValue(c) ==
    CASE c = "0" -> 0 [] c = "1" -> 1 [] c = "2" -> 2 [] c = "3" -> 3 [] c = "4" -> 4
      [] c = "5" -> 5 [] c = "6" -> 6 [] c = "7" -> 7 [] c = "8" -> 8 [] OTHER -> 9

RECURSIVE DecimalValue(_)
DecimalValue(ds) ==
    IF Len(ds) = 0 THEN 0
    ELSE 10 * DecimalValue(SubSeq(ds, 1, Len(ds) - 1)) + DigitValue(ds[Len(ds)])

\* str::parse::<u64>: an optional "+", then one or more decimal digits
\* (the environments of the model hold at most four digits, far below 2^64)
ParseU64(raw) ==
    LET ds == IF Len(raw) > 0 /\ raw[1] = "+" THEN Tail(raw) ELSE raw
    IN IF Len(ds) > 0 /\ \A i \in 1..Len(ds) : ds[i] \in Digits
       THEN [ok |-> TRUE, n |-> DecimalValue(ds)]
       ELSE [ok |-> FALSE, n |-> 0]

\* Config::parse_value
ParseValue(key, raw) ==
    IF raw = S_true \/ raw = S_false
    THEN [ok |-> TRUE, val |-> CfgBool(raw = S_true)]
    ELSE IF key = "ignored_players" \/ key = "rows"
    THEN [ok |-> TRUE, val |-> CfgVec([i \in 1..Len(Split(raw)) |-> Trim(Split(raw)[i])])]
    ELSE IF key = "update_interval"
    THEN IF ParseU64(raw).ok
         THEN [ok |-> TRUE, val |-> CfgDuration(ParseU64(raw).n)]
         ELSE [ok |-> FALSE, val |-> CfgString(EMPTY)]
    ELSE [ok |-> TRUE, val |-> CfgString(raw)]

\* T::try_from(ConfigValue), for the type T the caller asks for
TryFrom(val, want, key, cache) ==
    IF val.tag = want
    THEN [ok |-> TRUE, val |-> val, err |-> NoError, cache |-> cache]
    ELSE [ok |-> FALSE, val |-> val, err |-> AppError("TypeMismatch", key, EMPTY),
          cache |-> cache]

\* a Config::get that does not look into the cache: it reads and classifies
\* the environment value on every call, and stores it again
ConfigGet_Uncached(cache, environ, key, want) ==
    IF key \notin DOMAIN environ
    THEN [ok |-> FALSE, val |-> CfgString(EMPTY), err |-> AppError("EnvVar", key, EMPTY),
          cache |-> cache]
    ELSE IF ~ParseValue(key, environ[key]).ok
    THEN [ok |-> FALSE, val |-> CfgString(EMPTY), err |-> AppError("ParseError", key, EMPTY),
          cache |-> cache]
    ELSE TryFrom(ParseValue(key, environ[key]).val, want, key,
                 [k \in DOMAIN cache \cup {key} |->
                     IF k = key THEN ParseValue(key, environ[key]).val ELSE cache[k]])

\* Config::get::<T>(key) on the cache `cache`, in the environment `environ`
ConfigGet(cache, environ, key, want) ==
    IF key \in DOMAIN cache
    THEN TryFrom(cache[key], want, key, cache)
    ELSE IF key \notin DOMAIN environ
    THEN [ok |-> FALSE, val |-> CfgString(EMPTY), err |-> AppError("EnvVar", key, EMPTY),
          cache |-> cache]
    ELSE IF ~ParseValue(key, environ[key]).ok
    THEN [ok |-> FALSE, val |-> CfgString(EMPTY), err |-> AppError("ParseError", key, EMPTY),
          cache |-> cache]
    ELSE LET parsed == ParseValue(key, environ[key]).val
         IN TryFrom(parsed, want, key, cache @@ (key :> parsed))

(* ----------------------------- cover art ------------------------------- *)

\* format!("{release}_{artist}")
CacheKey(release, artist) == release \o <<"_">> \o artist

\* CoverArt::cache
CoverArtCache(cache, release, artist, url) ==
    [k \in DOMAIN cache \cup {CacheKey(release, artist)} |->
        IF k = CacheKey(release, artist) THEN url ELSE cache[k]]

\* a has() that never finds the key
CoverArtHas_Never(cache, key) == FALSE

\* CoverArt::has
CoverArtHas(cache, key) == key \in DOMAIN cache

\* CoverArt::get
CoverArtGet(cache, key) == IF key \in DOMAIN cache THEN cache[key] ELSE EMPTY

\* format!("https://coverartarchive.org/release/{mbid}/front")
CoverArtUrl(mbid) == URL_PREFIX \o mbid \o URL_SUFFIX

\* what get_cover_art returns and does: Ok(url) or Err, the cache as it
\* leaves it, whether it asked the search, and the first identifier found
ArtOut(ok, url, cache, searched, mbid) ==
    [ok |-> ok, url |-> url, cache |-> cache, searched |-> searched, mbid |-> mbid]

\* a get_cover_art without the test for the sentinel identifier
GetCoverArt_NoSentinel(release, artist, cache, search) ==
    LET key == CacheKey(release, artist)
    IN IF CoverArtHas(cache, key)
       THEN ArtOut(TRUE, CoverArtGet(cache, key), cache, FALSE, EMPTY)
       ELSE IF search.ok /\ Len(search.ids) > 0
       THEN ArtOut(TRUE, CoverArtUrl(search.ids[1]),
                   CoverArtCache(cache, release, artist, CoverArtUrl(search.ids[1])),
                   TRUE, search.ids[1])
       ELSE ArtOut(FALSE, EMPTY, cache, TRUE, EMPTY)

\* a get_cover_art that remembers a failed lookup: it stores the empty URL
\* under the key, and answers a stored empty URL with the failure
GetCoverArt_NegativeCache(release, artist, cache, search) ==
    LET key == CacheKey(release, artist)
    IN IF CoverArtHas(cache, key)
       THEN ArtOut(CoverArtGet(cache, key) # EMPTY, CoverArtGet(cache, key), cache,
                   FALSE, EMPTY)
       ELSE IF search.ok /\ Len(search.ids) > 0 /\ search.ids[1] # SENTINEL_MBID
       THEN ArtOut(TRUE, CoverArtUrl(search.ids[1]),
                   CoverArtCache(cache, release, artist, CoverArtUrl(search.ids[1])),
                   TRUE, search.ids[1])
       ELSE ArtOut(FALSE, EMPTY, CoverArtCache(cache, release, artist, EMPTY), TRUE,
                   IF search.ok /\ Len(search.ids) > 0 THEN search.ids[1] ELSE EMPTY)

\* get_cover_art(current) on the cache `cache`; `search` is what Release::search
\* answers if it is asked: [ok, ids], the identifiers of the entities found.
GetCoverArt(release, artist, cache, search) ==
    LET key == CacheKey(release, artist)
    IN IF CoverArtHas(cache, key)
       THEN ArtOut(TRUE, CoverArtGet(cache, key), cache, FALSE, EMPTY)
       ELSE IF ~search.ok
       THEN ArtOut(FALSE, EMPTY, cache, TRUE, EMPTY)
       ELSE IF Len(search.ids) > 0
       THEN LET mbid == search.ids[1]
            IN IF mbid = SENTINEL_MBID
               THEN ArtOut(FALSE, EMPTY, cache, TRUE, mbid)
               ELSE ArtOut(TRUE, CoverArtUrl(mbid),
                           CoverArtCache(cache, release, artist, CoverArtUrl(mbid)),
                           TRUE, mbid)
       ELSE ArtOut(FALSE, EMPTY, cache, TRUE, EMPTY)

(* ------------------------ ActivityInfo, Current ------------------------ *)

\* an ActivityInfo built without its image row
ActivityInfo_NoImage(details, state, subtitle, image) ==
    [details |-> details, state |-> state, subtitle |-> subtitle, image |-> EMPTY]

ActivityInfo(details, state, subtitle, image) ==
    [details |-> details, state |-> state, subtitle |-> subtitle, image |-> image]

\* impl Default for ActivityInfo
ActivityDefault == ActivityInfo(EMPTY, EMPTY, EMPTY, EMPTY)

\* ActivityInfo::is_empty
IsEmpty(a) ==
    a.details = EMPTY /\ a.state = EMPTY /\ a.subtitle = EMPTY /\ a.image = EMPTY

\* Current::new(activity)
CurrentNew(activity) ==
    [release |-> EMPTY, artist |-> EMPTY, url |-> EMPTY, activity |-> activity]

\* impl Default for Current
CurrentDefault == CurrentNew(ActivityDefault)

\* a derived PartialEq, which compares the activity too
CurrentEq_Derived(a, b) == a = b

\* impl PartialEq for Current: the activity is ignored
CurrentEq(a, b) == a.release = b.release /\ a.artist = b.artist /\ a.url = b.url

(* ------------------------------ metadata ------------------------------- *)

\* mpris::MetadataValue: a string, an array of values, or another shape
MvString(s) == [tag |-> "String", s |-> s, arr |-> << >>]
MvArray(a) == [tag |-> "Array", s |-> EMPTY, arr |-> a]
MvOther == [tag |-> "Other", s |-> EMPTY, arr |-> << >>]

\* value_to_string
RECURSIVE ValueToString(_)
ValueToString(val) ==
    IF val.tag = "String" THEN val.s
    ELSE IF val.tag = "Array"
    THEN Join([i \in 1..Len(val.arr) |-> ValueToString(val.arr[i])], <<",", " ">>)
    ELSE UNSUPPORTED

\* metadata.album_name(): the xesam:album entry when it is a string
AlbumName(md) ==
    IF K_album \in DOMAIN md /\ md[K_album].tag = "String"
    THEN [some |-> TRUE, s |-> md[K_album].s]
    ELSE [some |-> FALSE, s |-> EMPTY]

\* the strings of an array of values, in order
RECURSIVE Strings(_)
Strings(arr) ==
    IF Len(arr) = 0 THEN << >>
    ELSE IF arr[1].tag = "String" THEN <<arr[1].s>> \o Strings(Tail(arr))
    ELSE Strings(Tail(arr))

\* metadata.album_artists(): the strings of the xesam:albumArtist array
AlbumArtists(md) ==
    IF K_albumArtist \in DOMAIN md /\ md[K_albumArtist].tag = "Array"
    THEN [some |-> TRUE, v |-> Strings(md[K_albumArtist].arr)]
    ELSE [some |-> FALSE, v |-> << >>]

(* --------------------------- the environment --------------------------- *)

S_VLC == <<"V","L","C">>
S_mpv == <<"m","p","v">>
S_yes == <<"y","e","s">>
S_1000 == <<"1","0","0","0">>
S_1s == <<"1","s">>
S_appid == <<"4","2">>
RowsTwo == <<"{","t","i","t","l","e","}",","," ","b","y"," ","{","a","r","t","i","s","t","}">>
RowsFour == <<"o","n"," ","{","a","l","b","u","m","}",",","{","t","i","t","l","e","}",",","{","a","r","t","i","s","t","}"," ","-"," ","{","t","i","t","l","e","}",",","{","g","e","n","r","e","}">>

\* a process environment that sets every key main.rs reads
Environ(rows, show_paused, show_stopped, fetch_cover_art) ==
    [k \in {"update_interval", "application_id", "ignored_players", "rows",
            "show_paused", "show_stopped", "fetch_cover_art"} |->
        CASE k = "update_interval" -> S_1000
          [] k = "application_id" -> S_appid
          [] k = "ignored_players" -> S_mpv
          [] k = "rows" -> rows
          [] k = "show_paused" -> IF show_paused THEN S_true ELSE S_false
          [] k = "show_stopped" -> IF show_stopped THEN S_true ELSE S_false
          [] OTHER -> IF fetch_cover_art THEN S_true ELSE S_false]

\* the environment e without the key k
Unset(e, k) == [x \in DOMAIN e \ {k} |-> e[x]]

\* the environments the model starts in: the well-formed ones, and ones with
\* a key unset, of the wrong type, or unparsable
Environments ==
    {Environ(RowsTwo, TRUE, TRUE, TRUE),
     Environ(RowsTwo, TRUE, TRUE, FALSE), Environ(RowsTwo, FALSE, FALSE, FALSE),
     Environ(RowsFour, TRUE, FALSE, FALSE), Environ(RowsFour, FALSE, TRUE, FALSE),
     Unset(Environ(RowsTwo, TRUE, TRUE, TRUE), "rows"),
     Unset(Environ(RowsTwo, TRUE, TRUE, TRUE), "show_paused"),
     [Environ(RowsTwo, TRUE, TRUE, TRUE) EXCEPT !["fetch_cover_art"] = S_yes],
     [Environ(RowsTwo, TRUE, TRUE, TRUE) EXCEPT !["rows"] = S_true],
     [Environ(RowsTwo, TRUE, TRUE, TRUE) EXCEPT !["update_interval"] = S_1s],
     [Environ(RowsTwo, TRUE, TRUE, TRUE) EXCEPT !["application_id"] = S_false]}

\* metadata maps of the sessions
MdOf(album, artists, title) ==
    [k \in {K_album, K_albumArtist, K_artist, K_title} |->
        CASE k = K_album -> MvString(album)
          [] k = K_albumArtist -> MvArray([i \in 1..Len(artists) |-> MvString(artists[i])])
          [] k = K_artist -> MvArray([i \in 1..Len(artists) |-> MvString(artists[i])])
          [] OTHER -> title]

\* the metadata map a session answers with, by the name the model gives it:
\* release A by x; release A by x_y; release A_x by y (the cache key of the
\* one before); release B by x and y, without a title; a map without an album
Metadata(name) ==
    CASE name = "A/x" -> MdOf(<<"A">>, <<<<"x">>>>, MvString(<<"t">>))
      [] name = "A/x_y" -> MdOf(<<"A">>, <<<<"x", "_", "y">>>>, MvString(<<"u">>))
      [] name = "A_x/y" -> MdOf(<<"A", "_", "x">>, <<<<"y">>>>,
                                MvArray(<<MvString(<<"t">>), MvOther>>))
      [] name = "B/x,y" -> Unset(MdOf(<<"B">>, <<<<"x">>, <<"y">>>>, MvOther), K_title)
      [] OTHER -> Unset(MdOf(EMPTY, << >>, MvString(<<"t">>)), K_album)

Session(identity, status, metadata_ok, metadata) ==
    [identity |-> identity, status |-> status, metadata_ok |-> metadata_ok,
     metadata |-> metadata]

\* the sessions a query may list
Sessions ==
    {Session(S_VLC, "Playing", TRUE, m) : m \in {"A/x", "A/x_y", "A_x/y", "B/x,y", "none"}}
    \cup {Session(S_VLC, "Paused", TRUE, "A/x"),
          Session(S_VLC, "Stopped", TRUE, "A/x"),
          Session(S_VLC, "Error", FALSE, "none"),
          Session(S_mpv, "Playing", TRUE, "A/x")}

RECURSIVE SeqsUpTo(_, _)
SeqsUpTo(S, n) ==
    IF n = 0 THEN {<< >>}
    ELSE SeqsUpTo(S, n - 1)
         \cup {Append(q, x) : q \in {r \in SeqsUpTo(S, n - 1) : Len(r) = n - 1}, x \in S}

\* a session of the ignored player, and one that may follow the session
\* that decides the tick
IgnoredSession == Session(S_mpv, "Playing", TRUE, "A/x")
TrailingSession == Session(S_VLC, "Playing", TRUE, "A_x/y")

\* what PlayerFinder::new()?.find_all()? answers: an error, or a list of at
\* most MaxPlayers sessions. Only players[0] is read after retain() (line
\* 349), so the lists are: sessions of the ignored player, then any session,
\* then at most one more session.
Queries ==
    {[ok |-> FALSE, players |-> << >>], [ok |-> TRUE, players |-> << >>]}
    \cup {[ok |-> TRUE, players |-> t[1] \o <<t[2]>> \o t[3]] :
            t \in {u \in SeqsUpTo({IgnoredSession}, MaxPlayers - 1) \X Sessions
                            \X {<< >>, <<TrailingSession>>} :
                     Len(u[1]) + 1 + Len(u[3]) <= MaxPlayers}}

M1 == <<"m","1">>
M2 == <<"m","2">>

\* what Release::search(query).execute() answers: an error, or the
\* identifiers of at most MaxResults entities. Only entities[0] is read (line
\* 223), so the lists are: any first identifier, then further entities.
SearchOutcomes ==
    {[ok |-> FALSE, ids |-> << >>], [ok |-> TRUE, ids |-> << >>]}
    \cup {[ok |-> TRUE, ids |-> <<x>> \o rest] :
            x \in {SENTINEL_MBID, M1, M2}, rest \in SeqsUpTo({M2}, MaxResults - 1)}

\* what a send answers: accepted, an error answer (filter() fails, logged),
\* or a failure of send_and_wait itself (the ? operator returns from main)
TransportOutcomes == {"ok", "rejected", "io"}

\* Packet::new_activity(Some(&activity), None) built from the rows
ActivityPacket(rows) ==
    [kind |-> "activity", details |-> rows.details, state |-> rows.state,
     large_image |-> rows.image, large_text |-> rows.subtitle]

\* Packet::new_activity(None, None)
ClearPacket ==
    [kind |-> "clear", details |-> EMPTY, state |-> EMPTY, large_image |-> EMPTY,
     large_text |-> EMPTY]

(* --------------------------- process_metadata -------------------------- *)

\* rows.into_iter().take(3)
RowLimit == 3

\* while ret.len() < 3
RowCount == 3

\* a rendering that leaves out a template whose field the metadata lacks
RECURSIVE RenderFrom_SkipsMissing(_, _, _, _)
RenderFrom_SkipsMissing(rows, md, i, ret) ==
    IF i > Len(rows) \/ i > RowLimit
    THEN [ok |-> TRUE, ret |-> ret, field |-> EMPTY]
    ELSE IF (XESAM \o FilterField(rows[i])) \in DOMAIN md
    THEN RenderFrom_SkipsMissing(rows, md, i + 1,
             Append(ret, Replace(rows[i], <<"{">> \o FilterField(rows[i]) \o <<"}">>,
                                 ValueToString(md[XESAM \o FilterField(rows[i])]))))
    ELSE RenderFrom_SkipsMissing(rows, md, i + 1, ret)

\* the for loop over the row templates: the rows rendered so far, or the
\* field of the first template whose xesam: entry the metadata lacks
RECURSIVE RenderFrom(_, _, _, _)
RenderFrom(rows, md, i, ret) ==
    IF i > Len(rows) \/ i > RowLimit
    THEN [ok |-> TRUE, ret |-> ret, field |-> EMPTY]
    ELSE LET raw_row == rows[i]
             field == FilterField(raw_row)
             key == XESAM \o field
         IN IF key \in DOMAIN md
            THEN RenderFrom(rows, md, i + 1,
                     Append(ret, Replace(raw_row, <<"{">> \o field \o <<"}">>,
                                         ValueToString(md[key]))))
            ELSE [ok |-> FALSE, ret |-> ret, field |-> field]

\* while ret.len() < 3 { ret.push(String::new()) }
RECURSIVE Pad(_)
Pad(ret) == IF Len(ret) < RowCount THEN Pad(Append(ret, EMPTY)) ELSE ret

\* no session: every session of the query was ignored, or the query failed
NoPlayer == [identity |-> EMPTY, status |-> "None", metadata_ok |-> FALSE, metadata |-> "none"]

\* what a call of get_cover_art did, for the record of the tick
NoArt ==
    [called |-> FALSE, release |-> EMPTY, artist |-> EMPTY, ok |-> FALSE,
     url |-> EMPTY, searched |-> FALSE, found |-> FALSE, mbid |-> EMPTY]

\* the outcome of process_metadata: Ok(cur), Err(err) or a panic, with the
\* caches as it leaves them and the steps it went through
PMOut(status, cur, err, conf, cover, trace, art, rows) ==
    [status |-> status, cur |-> cur, err |-> err, conf |-> conf, cover |-> cover,
     trace |-> trace, art |-> art, rows |-> rows, ignored |-> << >>,
     player |-> NoPlayer]

\* the outcome `out`, with the ignore-list and the session that decided it
Decided(out, ignored, player) == [out EXCEPT !.ignored = ignored, !.player = player]

PMErr(err, conf, cover, trace, rows) ==
    PMOut("Err", CurrentDefault, err, conf, cover, trace, NoArt, rows)

\* a retain() that drops no session
Retain_Nothing(players, ignored) == players

\* players.retain(|p| !ignored_players.contains(p.identity()))
RECURSIVE Retain(_, _)
Retain(players, ignored) ==
    IF Len(players) = 0 THEN << >>
    ELSE IF \E i \in 1..Len(ignored) : ignored[i] = players[1].identity
    THEN Retain(Tail(players), ignored)
    ELSE <<players[1]>> \o Retain(Tail(players), ignored)

\* an image step that fails the tick when get_cover_art fails
PMImage_FailsOnArtError(player, show_paused, new, ret, conf, environ, cover, search, trace) ==
    LET name == ToLowercase(player.identity)
        player_name == IF player.status = "Paused" /\ show_paused
                       THEN name \o PAUSED_SUFFIX ELSE name
        g == ConfigGet(conf, environ, "fetch_cover_art", "Bool")
        tr == trace \cup {"cfg:fetch_cover_art"}
        r == GetCoverArt(new.release, new.artist, cover, search)
        art == [called |-> TRUE, release |-> new.release, artist |-> new.artist,
                ok |-> r.ok, url |-> r.url, searched |-> r.searched,
                found |-> r.searched /\ search.ok, mbid |-> r.mbid]
        tr2 == tr \cup {"art", "cache_read"}
                  \cup (IF r.searched THEN {"search"} ELSE {})
                  \cup (IF r.cache # cover THEN {"cache_write"} ELSE {})
    IN IF ~g.ok THEN PMErr(g.err, g.cache, cover, tr, ret)
       ELSE IF ~g.val.b
       THEN PMOut("Ok",
                  [release |-> new.release, artist |-> new.artist, url |-> player_name,
                   activity |-> ActivityInfo(ret[1], ret[2], ret[3], player_name)],
                  NoError, g.cache, cover, tr, NoArt, Append(ret, player_name))
       ELSE IF ~r.ok
       THEN PMOut("Err", CurrentDefault, AppError("MusicBrainz", "", EMPTY), g.cache,
                  r.cache, tr2, art, ret)
       ELSE PMOut("Ok",
                  [release |-> new.release, artist |-> new.artist, url |-> r.url,
                   activity |-> ActivityInfo(ret[1], ret[2], ret[3], r.url)],
                  NoError, g.cache, r.cache, tr2, art, Append(ret, r.url))

\* process_metadata from the image step on (lines 404-436)
PMImage(player, show_paused, new, ret, conf, environ, cover, search, trace) ==
    LET name == ToLowercase(player.identity)
        player_name == IF player.status = "Paused" /\ show_paused
                       THEN name \o PAUSED_SUFFIX ELSE name
        g == ConfigGet(conf, environ, "fetch_cover_art", "Bool")
        tr == trace \cup {"cfg:fetch_cover_art"}
    IN IF ~g.ok THEN PMErr(g.err, g.cache, cover, tr, ret)
       ELSE LET r == GetCoverArt(new.release, new.artist, cover, search)
                fetch == g.val.b
                url == IF fetch /\ r.ok THEN r.url ELSE player_name
                art == IF fetch
                       THEN [called |-> TRUE, release |-> new.release,
                             artist |-> new.artist, ok |-> r.ok, url |-> r.url,
                             searched |-> r.searched,
                             found |-> r.searched /\ search.ok, mbid |-> r.mbid]
                       ELSE NoArt
                tr2 == tr \cup (IF fetch THEN {"art", "cache_read"} ELSE {})
                          \cup (IF fetch /\ r.searched THEN {"search"} ELSE {})
                          \cup (IF fetch /\ r.cache # cover THEN {"cache_write"} ELSE {})
            IN PMOut("Ok",
                     [release |-> new.release, artist |-> new.artist, url |-> url,
                      activity |-> ActivityInfo(ret[1], ret[2], ret[3], url)],
                     NoError, g.cache, IF fetch THEN r.cache ELSE cover, tr2, art,
                     Append(ret, url))

\* a dedupe test that never holds
SameAsStored_Never(new, stored) == FALSE

\* the dedupe test of process_metadata (line 379)
SameAsStored(new, stored) ==
    new.release = stored.release /\ ~IsEmpty(stored.activity)

\* process_metadata from the metadata read on (lines 368-402)
PMSong(player, show_paused, conf, environ, stored, cover, search, trace) ==
    IF ~player.metadata_ok
       \/ ~AlbumName(Metadata(player.metadata)).some
       \/ ~AlbumArtists(Metadata(player.metadata)).some
    THEN PMOut("Panic", CurrentDefault, NoError, conf, cover,
               trace \cup {"metadata"}, NoArt, << >>)
    ELSE LET md == Metadata(player.metadata)
             new == [release |-> AlbumName(md).s,
                     artist |-> Join(AlbumArtists(md).v, <<",", " ">>),
                     url |-> stored.url, activity |-> ActivityDefault]
             tr == trace \cup {"metadata", "current"}
         IN IF SameAsStored(new, stored)
            THEN PMOut("Ok", stored, NoError, conf, cover, tr \cup {"dedupe"}, NoArt, << >>)
            ELSE LET g == ConfigGet(conf, environ, "rows", "Vec")
                     tr2 == tr \cup {"cfg:rows"}
                 IN IF ~g.ok THEN PMErr(g.err, g.cache, cover, tr2, << >>)
                    ELSE LET rr == RenderFrom(g.val.vec, md, 1, << >>)
                             tr3 == tr2 \cup {"render"}
                         IN IF ~rr.ok
                            THEN PMErr(AppError("FieldNotFound", "", rr.field),
                                       g.cache, cover, tr3, rr.ret)
                            ELSE PMImage(player, show_paused, new, Pad(rr.ret),
                                         g.cache, environ, cover, search, tr3)

\* process_metadata from the session query on (lines 340-366)
PMPlayers(ignored, show_paused, show_stopped, conf, environ, query, stored, cover, search, trace) ==
    LET tr == trace \cup {"players"}
        players == Retain(query.players, ignored)
    IN IF ~query.ok THEN PMErr(AppError("DBus", "", EMPTY), conf, cover, tr, << >>)
       ELSE IF Len(players) = 0
       THEN Decided(PMErr(AppError("NoActivePlayers", "", EMPTY), conf, cover, tr, << >>),
                    ignored, NoPlayer)
       ELSE LET player == players[1]
                tr2 == tr \cup {"status"}
            IN Decided(
                 IF player.status = "Error"
                 THEN PMErr(AppError("DBus", "", EMPTY), conf, cover, tr2, << >>)
                 ELSE IF show_stopped /\ player.status = "Stopped"
                 THEN PMOut("Ok",
                            CurrentNew(ActivityInfo(STOPPED_TEXT, EMPTY, EMPTY,
                                                    ToLowercase(player.identity))),
                            NoError, conf, cover, tr2, NoArt, << >>)
                 ELSE IF (player.status = "Paused" /\ ~show_paused)
                         \/ player.status = "Stopped"
                 THEN PMErr(AppError("NoSongPlaying", "", EMPTY), conf, cover, tr2, << >>)
                 ELSE PMSong(player, show_paused, conf, environ, stored, cover, search, tr2),
                 ignored, player)

\* process_metadata (lines 333-437): `query` is what the media-session query
\* answers, `stored` is CURRENT, `cover` the cover-art cache, `search` what
\* the release search answers if asked
ProcessMetadata(conf, environ, query, stored, cover, search) ==
    LET g1 == ConfigGet(conf, environ, "ignored_players", "Vec")
        g2 == ConfigGet(g1.cache, environ, "show_paused", "Bool")
        g3 == ConfigGet(g2.cache, environ, "show_stopped", "Bool")
    IN IF ~g1.ok THEN PMErr(g1.err, g1.cache, cover, {"cfg:ignored_players"}, << >>)
       ELSE IF ~g2.ok
       THEN PMErr(g2.err, g2.cache, cover, {"cfg:ignored_players", "cfg:show_paused"}, << >>)
       ELSE IF ~g3.ok
       THEN PMErr(g3.err, g3.cache, cover,
                  {"cfg:ignored_players", "cfg:show_paused", "cfg:show_stopped"}, << >>)
       ELSE PMPlayers(g1.val.vec, g2.val.b, g3.val.b, g3.cache, environ, query, stored,
                      cover, search,
                      {"cfg:ignored_players", "cfg:show_paused", "cfg:show_stopped"})

(* ------------------------------- state --------------------------------- *)

VARIABLES
    pc,         \* where main is: "start", "loop", "sleep", "exited", "panicked"
    env,        \* the process environment
    conf,       \* CONFIG.cache
    cover,      \* COVER_ART_CACHE.cache
    current,    \* CURRENT
    listening,  \* main's listening flag
    last,       \* the record of the last iteration of the loop
    resolved    \* history: for each pair get_cover_art was called for, the URL
                \* it first returned, or that it has only failed so far

vars == <<pc, env, conf, cover, current, listening, last, resolved>>

EmptyMap == [k \in {} |-> EMPTY]

NoTick ==
    [status |-> "None", err |-> NoError, ret |-> CurrentDefault,
     found |-> FALSE, skipped |-> << >>, player |-> NoPlayer, packets |-> << >>,
     transport |-> "none", trace |-> {}, art |-> NoArt, rows |-> << >>,
     retried |-> FALSE, calls |-> {}]

Init ==
    /\ pc = "start"
    /\ env \in Environments
    /\ conf = EmptyMap
    /\ cover = EmptyMap
    /\ current = CurrentDefault
    /\ listening = FALSE
    /\ last = NoTick
    /\ resolved = EmptyMap

\* main before the loop (lines 441-450); the error main returns with, if a
\* configuration read fails, is kept in `last`
Startup ==
    /\ pc = "start"
    /\ \E g1 \in {ConfigGet(conf, env, "update_interval", "Duration")} :
       \E g2 \in {ConfigGet(g1.cache, env, "application_id", "String")} :
       \E connected \in BOOLEAN :
         /\ conf' = IF g1.ok THEN g2.cache ELSE g1.cache
         /\ pc' = IF g1.ok /\ g2.ok /\ connected THEN "loop" ELSE "exited"
         /\ last' = [NoTick EXCEPT !.err = IF ~g1.ok THEN g1.err
                                          ELSE IF ~g2.ok THEN g2.err ELSE NoError]
    /\ listening' = FALSE
    /\ UNCHANGED <<env, cover, current, resolved>>

\* the identities of the sessions the query lists before the session
\* `chosen` (all of them, if the list does not hold it)
RECURSIVE Before(_, _)
Before(players, chosen) ==
    IF Len(players) = 0 \/ players[1] = chosen THEN << >>
    ELSE <<players[1].identity>> \o Before(Tail(players), chosen)

\* a search answer for an iteration that asks for none
NoSearch == [ok |-> FALSE, ids |-> << >>]

\* whether the iteration sends a packet: the Ok arm when the new Current
\* differs from CURRENT (line 458), the Err arm when listening (line 476)
Sends(pm, stored, listen) ==
    \/ pm.status = "Ok" /\ ~CurrentEq(stored, pm.cur)
    \/ pm.status = "Err" /\ listen

\* an event of an iteration: a mutex locked, a guard dropped, or a call out
\* of the process (D-Bus, the search request, the send to the client)
Lock(m) == [ev |-> "lock", what |-> m]
Unlock(m) == [ev |-> "unlock", what |-> m]
Call(c) == [ev |-> "call", what |-> c]

\* the events of process_metadata in program order, on the path `trace`: the
\* guard `config` lives from line 334 to the drop of line 410 or to the
\* return, the guard `current` from line 370 to the return of line 380 or the
\* drop of line 383, the guard `cover_art` of get_cover_art from line 205 to
\* its return
PMEvents(trace) ==
    <<Lock("CONFIG")>>
    \o (IF "players" \in trace THEN <<Call("find_all")>> ELSE << >>)
    \o (IF "status" \in trace THEN <<Call("get_playback_status")>> ELSE << >>)
    \o (IF "metadata" \in trace THEN <<Call("get_metadata")>> ELSE << >>)
    \o (IF "current" \in trace THEN <<Lock("CURRENT"), Unlock("CURRENT")>> ELSE << >>)
    \o <<Unlock("CONFIG")>>
    \o (IF "art" \in trace
        THEN <<Lock("COVER_ART_CACHE")>>
             \o (IF "search" \in trace THEN <<Call("search")>> ELSE << >>)
             \o <<Unlock("COVER_ART_CACHE")>>
        ELSE << >>)

\* the events of the match arm of main: the comparison of line 458 (the guard
\* is a temporary of the condition), set_current or reset_current, the send
MainEvents(status, packets) ==
    (IF status = "Ok" THEN <<Lock("CURRENT"), Unlock("CURRENT")>> ELSE << >>)
    \o (IF packets # << >>
        THEN <<Lock("CURRENT"), Unlock("CURRENT"), Call("send")>> ELSE << >>)

\* the calls among `events`, each with the mutexes locked while it is made
RECURSIVE HeldDuring(_, _)
HeldDuring(events, held) ==
    IF events = << >> THEN {}
    ELSE IF events[1].ev = "lock"
    THEN HeldDuring(Tail(events), held \cup {events[1].what})
    ELSE IF events[1].ev = "unlock"
    THEN HeldDuring(Tail(events), held \ {events[1].what})
    ELSE {[call |-> events[1].what, locks |-> held]} \cup HeldDuring(Tail(events), held)

\* the record of an iteration; `retried` tells that get_cover_art was called
\* for a pair for which every earlier call had failed
LastOf(pm, query, packets, transport) ==
    [status |-> pm.status, err |-> pm.err, ret |-> pm.cur,
     found |-> query.ok, skipped |-> Before(query.players, pm.player),
     player |-> pm.player,
     packets |-> packets, transport |-> transport, trace |-> pm.trace,
     art |-> pm.art, rows |-> pm.rows,
     retried |-> /\ pm.art.called
                 /\ <<pm.art.release, pm.art.artist>> \in DOMAIN resolved
                 /\ ~resolved[<<pm.art.release, pm.art.artist>>].ok,
     calls |-> HeldDuring(PMEvents(pm.trace) \o MainEvents(pm.status, packets), {})]

\* the history of the calls of get_cover_art, after the call `art`: the first
\* URL returned for the pair stays; a failure is kept until a URL is returned
Resolve(res, art) ==
    LET pair == <<art.release, art.artist>>
    IN IF art.called /\ (pair \notin DOMAIN res \/ (art.ok /\ ~res[pair].ok))
       THEN [k \in DOMAIN res \cup {pair} |->
                IF k = pair THEN [ok |-> art.ok, url |-> art.url] ELSE res[k]]
       ELSE res

\* the Ok arm of the match (lines 454-474)
OkArm(pm, query, transport) ==
    /\ listening' = TRUE
    /\ IF ~CurrentEq(current, pm.cur)
       THEN /\ current' = pm.cur
            /\ last' = LastOf(pm, query, <<ActivityPacket(pm.cur.activity)>>, transport)
            /\ pc' = IF transport = "io" THEN "exited" ELSE "sleep"
       ELSE /\ current' = current
            /\ last' = LastOf(pm, query, << >>, "none")
            /\ pc' = "sleep"

\* an Err arm that clears the presence whether or not it was listening
ErrArm_AlwaysClears(pm, query, transport) ==
    /\ listening' = FALSE
    /\ current' = CurrentDefault
    /\ last' = LastOf(pm, query, <<ClearPacket>>, transport)
    /\ pc' = IF transport = "io" THEN "exited" ELSE "sleep"

\* an Err arm that retracts the presence without reset_current()
ErrArm_KeepsCurrent(pm, query, transport) ==
    IF listening # FALSE
    THEN /\ listening' = FALSE
         /\ current' = current
         /\ last' = LastOf(pm, query, <<ClearPacket>>, transport)
         /\ pc' = IF transport = "io" THEN "exited" ELSE "sleep"
    ELSE /\ UNCHANGED <<listening, current>>
         /\ last' = LastOf(pm, query, << >>, "none")
         /\ pc' = "sleep"

\* the Err arm of the match (lines 475-481)
ErrArm(pm, query, transport) ==
    IF listening # FALSE
    THEN /\ listening' = FALSE
         /\ current' = CurrentDefault
         /\ last' = LastOf(pm, query, <<ClearPacket>>, transport)
         /\ pc' = IF transport = "io" THEN "exited" ELSE "sleep"
    ELSE /\ UNCHANGED <<listening, current>>
         /\ last' = LastOf(pm, query, << >>, "none")
         /\ pc' = "sleep"

\* a panic inside process_metadata (the expect and unwraps of lines 368-374)
PanicArm(pm, query) ==
    /\ pc' = "panicked"
    /\ last' = LastOf(pm, query, << >>, "none")
    /\ UNCHANGED <<listening, current>>

\* one iteration of the loop of main (lines 452-485, up to the sleep)
Tick ==
    /\ pc = "loop"
    /\ \E query \in Queries :
       \E probe \in {ProcessMetadata(conf, env, query, current, cover, NoSearch)} :
       \E search \in IF "search" \in probe.trace THEN SearchOutcomes ELSE {NoSearch} :
       \E pm \in {IF "search" \in probe.trace
                  THEN ProcessMetadata(conf, env, query, current, cover, search)
                  ELSE probe} :
       \E transport \in IF Sends(pm, current, listening)
                        THEN TransportOutcomes ELSE {"none"} :
         /\ conf' = pm.conf
         /\ cover' = pm.cover
         /\ resolved' = Resolve(resolved, pm.art)
         /\ CASE pm.status = "Ok" -> OkArm(pm, query, transport)
              [] pm.status = "Err" -> ErrArm(pm, query, transport)
              [] OTHER -> PanicArm(pm, query)
    /\ UNCHANGED env

\* sleep(interval).await (line 484)
Sleep ==
    /\ pc = "sleep"
    /\ pc' = "loop"
    /\ UNCHANGED <<env, conf, cover, current, listening, last, resolved>>

Next == Startup \/ Tick \/ Sleep

Spec == Init /\ [][Next]_vars

(* ------------------------------ the claims ----------------------------- *)

\* a step that is one iteration of the loop
IsTick == pc = "loop" /\ pc' # "loop"

\* the value of a boolean key in the configuration cache c
Enabled(c, key) == key \in DOMAIN c /\ c[key].tag = "Bool" /\ c[key].b

\* the release and the artist a session's metadata names, written out
PairOf(name) ==
    CASE name = "A/x" -> <<<<"A">>, <<"x">>>>
      [] name = "A/x_y" -> <<<<"A">>, <<"x", "_", "y">>>>
      [] name = "A_x/y" -> <<<<"A", "_", "x">>, <<"y">>>>
      [] name = "B/x,y" -> <<<<"B">>, <<"x", ",", " ", "y">>>>
      [] OTHER -> <<EMPTY, EMPTY>>

\* the session p reaches the metadata step: playing, or paused and shown
Playable(p, show_paused) ==
    /\ p.status = "Playing" \/ (p.status = "Paused" /\ show_paused)
    /\ p.metadata_ok
    /\ p.metadata \in {"A/x", "A/x_y", "A_x/y", "B/x,y"}

\* the lowercase identity of a player, written out
LowerIdentity(identity) == IF identity = S_VLC THEN <<"v", "l", "c">> ELSE identity

\* a and b differ in release, artist or url
Differs(a, b) == a.release # b.release \/ a.artist # b.artist \/ a.url # b.url

\* C1: a failing tick right after a successful tick sends exactly one clear
\* packet, and a failing tick right after a failing tick sends no packet.
C1_RetractionOnce ==
    [][IsTick /\ last'.status = "Err" =>
          /\ last.status = "Ok" => last'.packets = <<ClearPacket>>
          /\ last.status = "Err" => last'.packets = << >>]_vars

\* a failing tick has just retracted the presence
C1_Witness ==
    /\ last.status = "Err"
    /\ last.packets = <<ClearPacket>>
    /\ ~listening

\* C2: on a successful tick the activity update is sent, and CURRENT replaced,
\* exactly when the returned Current differs from CURRENT in release, artist
\* or url; otherwise nothing is sent and CURRENT stays as it was.
C2_SendIffDiffers ==
    [][IsTick /\ last'.status = "Ok" =>
          IF Differs(last'.ret, current)
          THEN /\ last'.packets = <<ActivityPacket(last'.ret.activity)>>
               /\ current' = last'.ret
          ELSE /\ last'.packets = << >>
               /\ current' = current]_vars

\* a successful tick for a song sent nothing
C2_Witness ==
    /\ last.status = "Ok"
    /\ last.packets = << >>
    /\ last.ret.release # EMPTY
    /\ current = last.ret

\* C3: a tick for a playing (or paused and shown) session whose release and
\* artist are those of CURRENT, with CURRENT's activity non-empty, returns
\* CURRENT as it is, without reading the rows, rendering, or calling
\* get_cover_art (no cache read, no search, no cache write).
C3_DedupeShortCircuit ==
    [][/\ IsTick
       /\ Playable(last'.player, Enabled(conf', "show_paused"))
       /\ PairOf(last'.player.metadata) = <<current.release, current.artist>>
       /\ ~(current.activity.details = EMPTY /\ current.activity.state = EMPTY
            /\ current.activity.subtitle = EMPTY /\ current.activity.image = EMPTY)
       => /\ last'.status = "Ok"
          /\ last'.ret = current
          /\ last'.trace \cap {"cfg:rows", "render", "art", "cache_read", "search",
                               "cache_write"} = {}
          /\ ~last'.art.called
          /\ cover' = cover]_vars

\* a tick took the short-circuit for the song CURRENT holds
C3_Witness ==
    /\ last.status = "Ok"
    /\ "dedupe" \in last.trace
    /\ PairOf(last.player.metadata) = <<current.release, current.artist>>
    /\ last.ret = current

\* C4: when the sampled release is CURRENT's release but the artist differs
\* (and CURRENT's activity is non-empty), process_metadata re-renders and
\* returns a Current with the new artist, and the activity update is sent.
C4_ArtistChangeRerenders ==
    [][/\ IsTick
       /\ Playable(last'.player, Enabled(conf', "show_paused"))
       /\ PairOf(last'.player.metadata)[1] = current.release
       /\ PairOf(last'.player.metadata)[2] # current.artist
       /\ ~IsEmpty(current.activity)
       => /\ "render" \in last'.trace
          /\ last'.status = "Ok"
               => /\ last'.ret.artist = PairOf(last'.player.metadata)[2]
                  /\ Len(last'.packets) = 1]_vars

\* C5: once get_cover_art has returned a URL for a pair, a later call for
\* that pair returns the same URL and does not ask the search.
C5_PositiveCaching ==
    [][/\ IsTick
       /\ last'.art.called
       /\ <<last'.art.release, last'.art.artist>> \in DOMAIN resolved
       /\ resolved[<<last'.art.release, last'.art.artist>>].ok
       => /\ last'.art.ok
          /\ last'.art.url = resolved[<<last'.art.release, last'.art.artist>>].url
          /\ ~last'.art.searched
          /\ "search" \notin last'.trace]_vars

\* get_cover_art answered from the cache, for a pair resolved earlier, after
\* another pair was resolved too
C5_Witness ==
    /\ last.art.called
    /\ last.art.ok
    /\ ~last.art.searched
    /\ \E p \in DOMAIN resolved :
         /\ p # <<last.art.release, last.art.artist>>
         /\ resolved[p].ok
         /\ resolved[p].url # last.art.url

\* C6: a failed get_cover_art (search error, no entity, or the sentinel
\* identifier first) leaves the cache as it was; the cache changes only by
\* a search whose first identifier is not the sentinel, and then by the one
\* entry release_artist -> https://coverartarchive.org/release/<id>/front.
C6_FailuresNotCached ==
    [][IsTick =>
        /\ last'.art.called /\ ~last'.art.ok => cover' = cover
        /\ (~last'.art.called \/ ~last'.art.searched \/ ~last'.art.found
            \/ last'.art.mbid = EMPTY \/ last'.art.mbid = SENTINEL_MBID) => cover' = cover
        /\ cover' # cover =>
             LET key == last'.art.release \o <<"_">> \o last'.art.artist
             IN /\ key \notin DOMAIN cover
                /\ DOMAIN cover' = DOMAIN cover \cup {key}
                /\ cover'[key] = URL_PREFIX \o last'.art.mbid \o URL_SUFFIX
                /\ \A k \in DOMAIN cover : cover'[k] = cover[k]]_vars

\* the search answered the sentinel identifier, while the cache holds a URL
\* from an earlier lookup
C6_Witness ==
    /\ last.art.called
    /\ ~last.art.ok
    /\ last.art.mbid = SENTINEL_MBID
    /\ cover # EmptyMap
    /\ (last.art.release \o <<"_">> \o last.art.artist) \notin DOMAIN cover

\* the image a tick falls back to for the session p: the lowercase identity,
\* with "_paused" when the session is paused and paused sessions are shown
FallbackImage(p, show_paused) ==
    LowerIdentity(p.identity)
        \o (IF p.status = "Paused" /\ show_paused
            THEN <<"_", "p", "a", "u", "s", "e", "d">> ELSE EMPTY)

\* the tick for the session p, with CURRENT = stored, takes the dedupe test
\* of process_metadata as passed
ShortCircuits(p, stored) ==
    PairOf(p.metadata)[1] = stored.release /\ ~IsEmpty(stored.activity)

\* C7 as stated: with fetching enabled, every tick for a pair whose lookups
\* have all failed so far calls get_cover_art again and asks the search again.
C7_LookupRepeatedEachTick ==
    [][/\ IsTick
       /\ Enabled(conf', "fetch_cover_art")
       /\ Playable(last'.player, Enabled(conf', "show_paused"))
       /\ PairOf(last'.player.metadata) \in DOMAIN resolved
       /\ ~resolved[PairOf(last'.player.metadata)].ok
       => /\ last'.art.called
          /\ last'.art.searched]_vars

\* C7, amended: with fetching enabled, a tick for a pair whose lookups have
\* all failed so far makes no lookup while it takes the dedupe short-circuit
\* (CURRENT holds the release with a non-empty activity); a tick that does not
\* take it and succeeds calls get_cover_art again, which asks the search
\* again unless a URL is cached under the pair's key.
C7_LookupRepeatedOnRerender ==
    [][/\ IsTick
       /\ Enabled(conf', "fetch_cover_art")
       /\ Playable(last'.player, Enabled(conf', "show_paused"))
       /\ PairOf(last'.player.metadata) \in DOMAIN resolved
       /\ ~resolved[PairOf(last'.player.metadata)].ok
       => IF ShortCircuits(last'.player, current)
          THEN /\ ~last'.art.called
               /\ "search" \notin last'.trace
               /\ last'.ret = current
          ELSE last'.status = "Ok" =>
                 /\ last'.art.called
                 /\ <<last'.art.release, last'.art.artist>> = PairOf(last'.player.metadata)
                 /\ last'.art.searched \/ last'.art.ok
                 /\ last'.art.searched <=>
                      (last'.art.release \o <<"_">> \o last'.art.artist) \notin DOMAIN cover]_vars

\* get_cover_art failed again, asking the search, for a pair for which it had
\* failed before
C7_Witness ==
    /\ last.retried
    /\ last.art.searched
    /\ ~last.art.ok
    /\ last.status = "Ok"

\* C8: a tick whose get_cover_art fails still succeeds, with the fallback
\* image (lowercase identity, "_paused" appended exactly when the session is
\* paused and shown) as url and as the activity's image; with fetching
\* disabled the same fallback is used and get_cover_art is not called.
C8_FallbackImage ==
    /\ (last.art.called /\ ~last.art.ok) =>
          /\ last.status = "Ok"
          /\ last.ret.url = FallbackImage(last.player, Enabled(conf, "show_paused"))
          /\ last.ret.activity.image = last.ret.url
    /\ ("cfg:fetch_cover_art" \in last.trace /\ "fetch_cover_art" \in DOMAIN conf
          /\ conf["fetch_cover_art"].tag = "Bool" /\ ~conf["fetch_cover_art"].b) =>
          /\ last.status = "Ok"
          /\ last.ret.url = FallbackImage(last.player, Enabled(conf, "show_paused"))
          /\ last.ret.activity.image = last.ret.url
          /\ ~last.art.called
          /\ last.trace \cap {"art", "cache_read", "search", "cache_write"} = {}

\* a failed lookup for a paused session gave the image "vlc_paused"
C8_Witness ==
    /\ last.art.called
    /\ ~last.art.ok
    /\ last.player.status = "Paused"
    /\ last.ret.url = <<"v", "l", "c", "_", "p", "a", "u", "s", "e", "d">>
    /\ current.activity.image = last.ret.url

\* the field of the first of the first three templates of rows that the
\* metadata md has no xesam: entry for, or the empty string
RECURSIVE FirstMissing(_, _, _)
FirstMissing(rows, md, i) ==
    IF i > Len(rows) \/ i > 3 THEN EMPTY
    ELSE IF (<<"x", "e", "s", "a", "m", ":">> \o FilterField(rows[i])) \in DOMAIN md
    THEN FirstMissing(rows, md, i + 1)
    ELSE FilterField(rows[i])

\* FirstMissing for the row lists of the environments and the metadata maps
\* of the playable sessions
MissingField ==
    [name \in {"A/x", "A/x_y", "A_x/y", "B/x,y"} |->
        [rows \in {ParseValue("rows", RowsTwo).val.vec,
                   ParseValue("rows", RowsFour).val.vec} |->
            FirstMissing(rows, Metadata(name), 1)]]

\* C9: a tick that renders the templates (a playable session, the dedupe test
\* not passed, rows read) for metadata lacking the field of one of the first
\* three templates fails with FieldNotFound of the first such field: no
\* activity is built or sent, get_cover_art is not called, and the tick
\* retracts the presence if listening and sends nothing otherwise.
C9_FieldNotFoundFailsTick ==
    [][/\ IsTick
       /\ Playable(last'.player, Enabled(conf', "show_paused"))
       /\ ~ShortCircuits(last'.player, current)
       /\ "rows" \in DOMAIN conf' /\ conf'["rows"].tag = "Vec"
       /\ MissingField[last'.player.metadata][conf'["rows"].vec] # EMPTY
       => /\ last'.status = "Err"
          /\ last'.err.kind = "FieldNotFound"
          /\ last'.err.field = MissingField[last'.player.metadata][conf'["rows"].vec]
          /\ ~last'.art.called
          /\ last'.trace \cap {"cfg:fetch_cover_art", "art", "cache_read", "search",
                               "cache_write"} = {}
          /\ cover' = cover
          /\ IF listening
             THEN /\ last'.packets = <<ClearPacket>>
                  /\ ~listening'
                  /\ current' = CurrentDefault
             ELSE /\ last'.packets = << >>
                  /\ ~listening'
                  /\ current' = current]_vars

\* a tick failed on the second template, after rendering the first, and
\* retracted the presence
C9_Witness ==
    /\ last.status = "Err"
    /\ last.err.kind = "FieldNotFound"
    /\ last.err.field = <<"t", "i", "t", "l", "e">>
    /\ Len(last.rows) = 1
    /\ last.packets = <<ClearPacket>>

\* C10: a tick whose first non-ignored session is Stopped, with show_stopped
\* enabled, succeeds with an activity whose details is "Stopped playback",
\* state and subtitle empty and image the lowercase identity, in a Current
\* with empty release, artist and url; it reads neither the metadata nor the
\* rows, renders nothing and makes no cover-art lookup.
C10_StoppedActivity ==
    [][/\ IsTick
       /\ last'.player.status = "Stopped"
       /\ Enabled(conf', "show_stopped")
       => /\ last'.status = "Ok"
          /\ last'.ret.release = EMPTY /\ last'.ret.artist = EMPTY
          /\ last'.ret.url = EMPTY
          /\ last'.ret.activity
               = [details |-> <<"S", "t", "o", "p", "p", "e", "d", " ",
                                "p", "l", "a", "y", "b", "a", "c", "k">>,
                  state |-> EMPTY, subtitle |-> EMPTY,
                  image |-> LowerIdentity(last'.player.identity)]
          /\ ~last'.art.called
          /\ last'.rows = << >>
          /\ last'.trace \cap {"metadata", "current", "dedupe", "cfg:rows", "render",
                               "cfg:fetch_cover_art", "art", "cache_read", "search",
                               "cache_write"} = {}
          /\ cover' = cover
          /\ \A k \in {"rows", "fetch_cover_art"} :
                k \in DOMAIN conf' => k \in DOMAIN conf]_vars

\* the stopped activity replaced a song's presence
C10_Witness ==
    /\ last.player.status = "Stopped"
    /\ last.status = "Ok"
    /\ last.ret.activity.image = <<"v", "l", "c">>
    /\ Len(last.packets) = 1
    /\ last.packets[1].kind = "activity"
    /\ current = last.ret

\* C11: a tick whose send fails (an error answer, or a failure of
\* send_and_wait itself) completes: the loop goes on to the sleep and to the
\* next tick.
C11_SendFailureIgnored ==
    [][IsTick /\ last'.transport \in {"rejected", "io"} => pc' = "sleep"]_vars

\* C12: no call out of the process (the session queries, the search request,
\* a send) is made while one of the mutexes CONFIG, COVER_ART_CACHE, CURRENT
\* is locked.
C12_NoLockAcrossExternalCall == \A c \in last.calls : c.locks = {}

\* the types a caller of Config::get asks for
ConfigTypes == {"Vec", "String", "Bool", "Duration"}

\* environments other than the one of the process: no key set, and every key
\* set to another value
OtherEnvironments ==
    {[k \in {} |-> EMPTY],
     [k \in {"rows", "show_paused", "show_stopped", "fetch_cover_art",
             "ignored_players", "update_interval", "application_id"} |-> <<"7">>]}

\* C13: an entry of the configuration cache is never replaced or removed, and
\* a get for a key that has an entry gives the entry (or TypeMismatch if the
\* type asked for is another), whatever the environment holds by then, and
\* leaves the cache as it is.
C13_CacheIdempotent ==
    /\ [][\A k \in DOMAIN conf : k \in DOMAIN conf' /\ conf'[k] = conf[k]]_vars
    /\ [](\A k \in DOMAIN conf :
            \A e2 \in OtherEnvironments \cup {env}, want \in ConfigTypes :
               \A g \in {ConfigGet(conf, e2, k, want)} :
                  /\ g.cache = conf
                  /\ g.ok <=> conf[k].tag = want
                  /\ g.ok => g.val = conf[k] /\ g.err.kind = "None"
                  /\ ~g.ok => g.err.kind = "TypeMismatch" /\ g.err.key = k)

\* a tick read show_paused again, from the cache an earlier tick filled (it
\* holds rows, which this tick did not read)
C13_Witness ==
    /\ last.status = "Ok"
    /\ "cfg:show_paused" \in last.trace
    /\ "cfg:rows" \notin last.trace
    /\ "dedupe" \in last.trace
    /\ {"show_paused", "rows"} \subseteq DOMAIN conf

\* the string holds a non-negative integer, written in decimal digits
IsNonNegativeInteger(raw) ==
    Len(raw) > 0 /\ \A i \in 1..Len(raw) : raw[i] \in Digits

\* C14: a failure of Config::get has the kind EnvVar when the key is unset,
\* ParseInt when the key is update_interval and its value is not a
\* non-negative integer, and TypeMismatch otherwise (the classified type is
\* not the type asked for).
C14_ConfigErrorKinds ==
    last.err.key # "" =>
        last.err.kind =
            IF last.err.key \notin DOMAIN env THEN "EnvVar"
            ELSE IF last.err.key = "update_interval"
                    /\ ~IsNonNegativeInteger(env[last.err.key])
            THEN "ParseInt"
            ELSE "TypeMismatch"

\* the three rows of a complete rendering, for the row lists of the
\* environments and the metadata maps of the playable sessions: the rendered
\* templates, padded with empty strings
CompleteRows ==
    [name \in {"A/x", "A/x_y", "A_x/y", "B/x,y"} |->
        [rows \in {ParseValue("rows", RowsTwo).val.vec,
                   ParseValue("rows", RowsFour).val.vec} |->
            [ok |-> RenderFrom(rows, Metadata(name), 1, << >>).ok,
             ret |-> Pad(RenderFrom(rows, Metadata(name), 1, << >>).ret)]]]

\* the images of the model: the fallbacks and the cover-art URLs
Images ==
    {<<"v", "l", "c">>, <<"v", "l", "c", "_", "p", "a", "u", "s", "e", "d">>,
     URL_PREFIX \o M1 \o URL_SUFFIX, URL_PREFIX \o M2 \o URL_SUFFIX}

\* C15: the activity of CURRENT is never partially filled: it is the empty
\* activity of the default Current, or the stopped activity with the player
\* name as image, or the three padded rows of a complete rendering of the
\* stored song with CURRENT's url (a cover-art URL or the fallback) as image.
C15_ActivityNeverPartial ==
    \/ current = [release |-> EMPTY, artist |-> EMPTY, url |-> EMPTY,
                  activity |-> [details |-> EMPTY, state |-> EMPTY,
                                subtitle |-> EMPTY, image |-> EMPTY]]
    \/ /\ current.release = EMPTY /\ current.artist = EMPTY /\ current.url = EMPTY
       /\ current.activity
            = [details |-> <<"S", "t", "o", "p", "p", "e", "d", " ",
                             "p", "l", "a", "y", "b", "a", "c", "k">>,
               state |-> EMPTY, subtitle |-> EMPTY, image |-> <<"v", "l", "c">>]
    \/ /\ "rows" \in DOMAIN conf /\ conf["rows"].tag = "Vec"
       /\ current.url \in Images
       /\ \E name \in {"A/x", "A/x_y", "A_x/y", "B/x,y"} :
            /\ PairOf(name) = <<current.release, current.artist>>
            /\ CompleteRows[name][conf["rows"].vec].ok
            /\ current.activity
                 = [details |-> CompleteRows[name][conf["rows"].vec].ret[1],
                    state |-> CompleteRows[name][conf["rows"].vec].ret[2],
                    subtitle |-> CompleteRows[name][conf["rows"].vec].ret[3],
                    image |-> current.url]

\* CURRENT holds a rendering of two templates padded with an empty third row,
\* with a cover-art URL as image
C15_Witness ==
    /\ current.activity.details # EMPTY
    /\ current.activity.state # EMPTY
    /\ current.activity.subtitle = EMPTY
    /\ current.activity.image = URL_PREFIX \o M1 \o URL_SUFFIX
    /\ current.url = current.activity.image

\* the identity is in the ignore-list the configuration cache c holds
Ignored(c, identity) ==
    \E i \in 1..Len(c["ignored_players"].vec) : c["ignored_players"].vec[i] = identity

\* C16: on a tick whose session query answered, every session listed before
\* the session that decided the tick is ignored and the deciding session is
\* not; when every session is ignored the tick fails with NoActivePlayers,
\* when the deciding session is paused and not shown or stopped and not shown
\* it fails with NoSongPlaying, and neither sends an activity update; an
\* activity update is only ever sent for a session that is not ignored.
C16_FirstNonIgnoredDecides ==
    ("players" \in last.trace /\ last.found) =>
        /\ \A i \in 1..Len(last.skipped) : Ignored(conf, last.skipped[i])
        /\ last.player # NoPlayer => ~Ignored(conf, last.player.identity)
        /\ last.player = NoPlayer =>
             /\ last.status = "Err" /\ last.err.kind = "NoActivePlayers"
             /\ \A i \in 1..Len(last.packets) : last.packets[i].kind # "activity"
        /\ ((last.player.status = "Paused" /\ ~Enabled(conf, "show_paused"))
            \/ (last.player.status = "Stopped" /\ ~Enabled(conf, "show_stopped"))) =>
             /\ last.status = "Err" /\ last.err.kind = "NoSongPlaying"
             /\ \A i \in 1..Len(last.packets) : last.packets[i].kind # "activity"
        /\ \A i \in 1..Len(last.packets) :
             last.packets[i].kind = "activity" =>
                /\ last.player # NoPlayer
                /\ ~Ignored(conf, last.player.identity)
                /\ last.packets[i].large_image \notin
                     {<<"m", "p", "v">>, <<"m", "p", "v", "_", "p", "a", "u", "s", "e", "d">>}
                /\ last.packets[i].details = last.ret.activity.details

\* a tick passed over an ignored session and sent the update of the session
\* listed after it
C16_Witness ==
    /\ last.skipped # << >>
    /\ last.skipped[1] = <<"m", "p", "v">>
    /\ last.player.identity = <<"V", "L", "C">>
    /\ last.status = "Ok"
    /\ Len(last.packets) = 1
    /\ last.packets[1].large_image = <<"v", "l", "c">>

\* C17: a successful tick made while not listening (the first one after
\* startup or after a retraction) sends an activity update, the "Stopped
\* playback" activity of a stopped session included.
C17_FirstSuccessSends ==
    [][IsTick /\ ~listening /\ last'.status = "Ok" =>
          /\ last'.packets = <<ActivityPacket(last'.ret.activity)>>
          /\ current' = last'.ret]_vars

\* C18: CURRENT is the snapshot last broadcast: a tick whose activity update
\* the transport does not accept (an error answer, or a failed send) leaves
\* CURRENT as it was.
C18_StoredIsLastBroadcast ==
    [][/\ IsTick
       /\ last'.status = "Ok"
       /\ last'.packets # << >>
       /\ last'.transport \in {"rejected", "io"}
       => current' = current]_vars

\* C19: after a successful tick for a playing (or paused and shown) session,
\* when the image of CURRENT's activity is a fallback image, it is the
\* fallback of the session just sampled: the lowercase identity, with
\* "_paused" when that session is paused and shown, without it when playing.
C19_PausedSuffixFollowsStatus ==
    [][/\ IsTick
       /\ last'.status = "Ok"
       /\ Playable(last'.player, Enabled(conf', "show_paused"))
       /\ current'.activity.image
            \in {<<"v", "l", "c">>, <<"v", "l", "c", "_", "p", "a", "u", "s", "e", "d">>}
       => current'.activity.image
            = FallbackImage(last'.player, Enabled(conf', "show_paused"))]_vars

\* C20: whenever listening is false, CURRENT is the default Current; and a
\* tick for a playing (or paused and shown) session made while listening is
\* false does not take the dedupe return: it reads the rows and renders.
C20_NotListeningMeansDefault ==
    /\ [](~listening =>
            current = [release |-> EMPTY, artist |-> EMPTY, url |-> EMPTY,
                       activity |-> [details |-> EMPTY, state |-> EMPTY,
                                     subtitle |-> EMPTY, image |-> EMPTY]])
    /\ [][/\ IsTick
          /\ ~listening
          /\ Playable(last'.player, Enabled(conf', "show_paused"))
          => /\ "dedupe" \notin last'.trace
             /\ "cfg:rows" \in last'.trace
             /\ ("rows" \in DOMAIN conf' /\ conf'["rows"].tag = "Vec")
                  => "render" \in last'.trace]_vars

\* a retraction, after a song was shown, has reset CURRENT
C20_Witness ==
    /\ ~listening
    /\ last.status = "Err"
    /\ last.packets = <<ClearPacket>>
    /\ resolved # EmptyMap
    /\ current.release = EMPTY
    /\ current.activity.image = EMPTY

====
